---- MODULE Spec2Model ----
(***************************************************************************)
(* A model of the two harvesting scripts (data_scraper_channel.py and      *)
(* main.py), of the tier filter of main.py and of the transcript chunker   *)
(* of sentiment_analyzer_transformer.py.                                   *)
(*                                                                         *)
(* Each script is a sequential program.  Its position is a pc variable     *)
(* (cpc, spc, fpc, tpc), "off" while another script is the one running.    *)
(* Every call of an external service is one action whose response is drawn *)
(* from the set of responses the service can give.                         *)
(*                                                                         *)
(* Text is a sequence of one-character strings, so that join and strip are *)
(* computed and not assumed.                                               *)
(***************************************************************************)
EXTENDS Integers, Sequences, FiniteSets

VARIABLES
    \* ---- data_scraper_channel.py, main()
    cpc,          \* position in main()
    entries,      \* channel_info.get("entries", [])
    idx,          \* number of entries the for loop has taken
    video_id,     \* entry.get("id") of the entry being processed
    transcript,   \* the text fetch_transcript returned for it
    csv_file,     \* "absent", "open" or "closed"
    csv_rows,     \* the rows written after the header
    OUTPUT_CSV,   \* what the path holds: "none", "old" (an earlier run's file) or "new"
    listCalls,    \* history: calls of ydl_list.extract_info
    log,          \* history: what was done for video_id, in order
    expected,     \* history: per entry taken, the row the services' answers call for
    \* ---- main.py, main() and search_and_filter()
    spc,          \* position in main() / search_and_filter()
    needed,       \* the quota main() passes (TARGET_PER_TIER)
    tiersDone,    \* tiers of TIERS the for loop has completed
    collected,    \* the dict of search_and_filter, in insertion order
    tries,        \* the iteration counter (only printed)
    entriesLeft,  \* entries of the current batch not yet read by `for e in entries`
    cand,         \* the candidate whose transcript is being fetched
    all_videos,   \* main()'s accumulated list
    out_file,     \* "absent" or "closed": OUTPUT_CSV of main.py
    out_rows,     \* the rows written to it
    sresp,        \* history: the search service's response in this iteration
    stresp,       \* history: the transcript service's response to the fetch just made
    slept,        \* history: the sleeps of the current loop iteration, in order
    \* ---- main.py, the tier filter applied to one view count
    fpc,
    view_count,   \* e.get('view_count'), <<>> when missing
    tierNo,       \* tiers of TIERS already tried
    passes,       \* names of the tiers whose filter the candidate passed
    \* ---- sentiment_analyzer_transformer.py, transcript_to_id_chunks
    tpc,
    token_ids,    \* tokenizer.encode(text, add_special_tokens=False)
    chunk_size,
    chunks,
    \* ---- sentiment_analyzer_transformer.py, the scoring loop
    rpc,            \* position in the script
    window,         \* chunk_size of line 46
    rowsLeft,       \* rows of df not yet taken by `for idx, row in df.iterrows()`
    nTokens,        \* history: len(token_ids) of the row being scored
    id_chunks,      \* the chunks `for ids in id_chunks` has not taken yet
    modelCalls,     \* history: runs of the classifier for the row being scored
    chunk_neg,      \* in percent
    chunk_pos,      \* in percent
    all_neg_probs,  \* the averages, each as <<sum, count>>
    all_pos_probs,
    all_scores,
    scored_csv      \* OUTPUT_CSV of the script: "absent" or "written"

chanVars == <<cpc, entries, idx, video_id, transcript, csv_file, csv_rows,
              OUTPUT_CSV, listCalls, log, expected>>
sampVars == <<spc, needed, tiersDone, collected, tries, entriesLeft, cand,
              all_videos, out_file, out_rows, sresp, stresp, slept>>
filtVars == <<fpc, view_count, tierNo, passes>>
chunkVars == <<tpc, token_ids, chunk_size, chunks>>
scoreVars == <<rpc, window, rowsLeft, nTokens, id_chunks, modelCalls, chunk_neg, chunk_pos,
               all_neg_probs, all_pos_probs, all_scores, scored_csv>>
vars == <<chanVars, sampVars, filtVars, chunkVars, scoreVars>>
otherThanChannel == <<sampVars, filtVars, chunkVars, scoreVars>>
otherThanSampler == <<chanVars, filtVars, chunkVars, scoreVars>>
otherThanFilter == <<chanVars, sampVars, chunkVars, scoreVars>>
otherThanChunker == <<chanVars, sampVars, filtVars, scoreVars>>
otherThanScorer == <<chanVars, sampVars, filtVars, chunkVars>>

(***************************************************************************)
(* Bounds of the model.                                                    *)
(***************************************************************************)
MaxEntries == 3     \* longest channel listing
MaxNeeded == 2      \* largest quota per tier, and the number of distinct videos
MaxBatch == 2       \* longest search batch
MaxTries == 2       \* tries is not told apart beyond this
MaxDelta == 3       \* view counts this close to a tier boundary are tried
MaxTokens == 4      \* longest token sequence
MaxChunk == 3       \* largest chunk size
MaxRows == 3        \* most rows of the scorer's input

(***************************************************************************)
(* Python values.                                                          *)
(***************************************************************************)
None == "None"
\* An optional number: <<>> when the key is missing or None, <<n>> otherwise.
Missing == <<>>
Some(n) == <<n>>

Min(a, b) == IF a <= b THEN a ELSE b

\* x or 0
OrZero(x) == IF x = Missing THEN 0 ELSE x[1]

IsSpace(c) == c = " "

RECURSIVE LStrip(_)
LStrip(s) == IF s # <<>> /\ IsSpace(Head(s)) THEN LStrip(Tail(s)) ELSE s

RECURSIVE RStrip(_)
RStrip(s) ==
    IF s # <<>> /\ IsSpace(s[Len(s)]) THEN RStrip(SubSeq(s, 1, Len(s) - 1)) ELSE s

\* str.strip()
Strip(s) == RStrip(LStrip(s))

\* ' '.join(texts)
RECURSIVE Join(_)
Join(texts) ==
    IF texts = <<>> THEN <<>>
    ELSE IF Len(texts) = 1 THEN texts[1]
    ELSE texts[1] \o <<" ">> \o Join(Tail(texts))

RECURSIVE Flatten(_)
Flatten(ss) == IF ss = <<>> THEN <<>> ELSE Head(ss) \o Flatten(Tail(ss))

SeqsUpTo(S, n) == UNION {[1..k -> S] : k \in 0..n}

Range(f) == {f[i] : i \in DOMAIN f}

(***************************************************************************)
(* The external services, as the sets of responses they can give.          *)
(***************************************************************************)
\* YouTubeTranscriptApi.get_transcript: the caption segments' texts.
CaptionLists ==
    { <<>>,                               \* an empty caption list
      << <<" ">> >>,                      \* one blank segment
      << <<>>, <<>> >>,                   \* two empty segments
      << <<"h", " ", "w">> >>,            \* one segment, "h w"
      << <<"h">>, <<"w">> >>,             \* two segments, joined to "h w"
      << <<" ", "h">>, <<" ">> >> }       \* stripped on both sides to "h"

\* It raises TranscriptsDisabled, raises something else, or returns segments.
TranscriptResponses ==
    {[kind |-> "TranscriptsDisabled"], [kind |-> "Exception"]}
        \cup {[kind |-> "segments", segs |-> c] : c \in CaptionLists}

\* The texts of the errors YoutubeDL.extract_info raises.
Messages ==
    { "The current session has been rate-limited by YouTube",
      "HTTP Error 429: Rate-Limited",
      "Video unavailable" }

\* A mutant of Lower: the text is compared as it is.
LowerAsIs(msg) == msg

\* str(e).lower()
Lower(msg) ==
    CASE msg = "The current session has been rate-limited by YouTube"
            -> "the current session has been rate-limited by youtube"
      [] msg = "HTTP Error 429: Rate-Limited" -> "http error 429: rate-limited"
      [] msg = "Video unavailable" -> "video unavailable"
      [] OTHER -> msg

\* 'rate-limited' in msg
ContainsRateLimited(msg) ==
    msg \in { "The current session has been rate-limited by YouTube",
              "the current session has been rate-limited by youtube",
              "http error 429: rate-limited" }

\* YoutubeDL.extract_info raises DownloadError, raises something else, or returns.
Failures == {[kind |-> k, msg |-> m] : k \in {"DownloadError", "Exception"}, m \in Messages}

MetaResponses == {[kind |-> "ok"]} \cup Failures

(***************************************************************************)
(* data_scraper_channel.py                                                 *)
(***************************************************************************)
ChannelIds == {"A", "B", "C"}

\* entry.get("id") of a listed entry: None when the entry has no id.
ListingEntries == ChannelIds \cup {None}

ListResponses ==
    {[kind |-> "raise"]}
        \cup {[kind |-> "ok", entries |-> es] : es \in SeqsUpTo(ListingEntries, MaxEntries)}

\* A mutant of fetch_transcript: the blank-text check is left out.
fetch_transcript_unchecked(resp) ==
    IF resp.kind # "segments"
    THEN [raised |-> resp.kind, text |-> <<>>]
    ELSE [raised |-> "no", text |-> Strip(Join(resp.segs))]

\* fetch_transcript, given what get_transcript does: what it raises ("no" when it
\* returns) and the text it returns.
fetch_transcript(resp) ==
    IF resp.kind # "segments"
    THEN [raised |-> resp.kind, text |-> <<>>]
    ELSE LET text == Strip(Join(resp.segs))
         IN  IF text = <<>>
             THEN [raised |-> "ValueError", text |-> <<>>]
             ELSE [raised |-> "no", text |-> text]

\* time.sleep(random.uniform(MIN_PAUSE, MAX_PAUSE))
Throttle == <<"throttle", "uniform">>
\* time.sleep(60)
Sleep60 == <<"sleep", 60>>

\* ---- what the services' answers call for (used by the history variable expected)
\* The transcript service returned captions that are not all blank.
HasCaptionText(resp) ==
    /\ resp.kind = "segments"
    /\ \E i \in 1..Len(resp.segs) : \E j \in 1..Len(resp.segs[i]) : ~IsSpace(resp.segs[i][j])

Calls(l, op) == SelectSeq(l, LAMBDA e : e[1] = op)

\* The metadata service answered the first call, or its repetition.
MetadataObtained(l) ==
    LET m == Calls(l, "meta")
    IN  /\ Len(m) >= 1
        /\ \/ m[1][2].kind = "ok"
           \/ Len(m) >= 2 /\ m[2][2].kind = "ok"

\* The row, if any, that the services' answers for one entry call for.
OracleRow(id, l) ==
    LET t == Calls(l, "transcript")
    IN  IF Len(t) >= 1 /\ HasCaptionText(t[1][2]) /\ MetadataObtained(l)
        THEN << [video_id |-> id, transcript |-> Strip(Join(t[1][2].segs))] >>
        ELSE <<>>

InitChannelAt(pc) ==
    /\ cpc = pc
    /\ entries = <<>>
    /\ idx = 0
    /\ video_id = None
    /\ transcript = <<>>
    /\ csv_file = "absent"
    /\ csv_rows = <<>>
    /\ OUTPUT_CSV \in (IF pc = "off" THEN {"none"} ELSE {"none", "old"})
    /\ listCalls = 0
    /\ log = <<>>
    /\ expected = <<>>

\* A mutant of ListUploads: the CSV is opened before the listing is asked for.
ListUploadsOpensFirst ==
    /\ cpc = "start"
    /\ \E resp \in ListResponses :
        /\ listCalls' = listCalls + 1
        /\ csv_file' = "open"
        /\ csv_rows' = <<>>
        /\ OUTPUT_CSV' = "new"
        /\ IF resp.kind = "raise" \/ resp.entries = <<>>
           THEN cpc' = "returned" /\ UNCHANGED entries
           ELSE cpc' = "next" /\ entries' = resp.entries
    /\ UNCHANGED <<idx, video_id, transcript, log, expected>>
    /\ UNCHANGED otherThanChannel

\* Lines 99-126: list the uploads; on success open the CSV (mode "w": the file
\* is created, or truncated if it exists) and write its header.
ListUploads ==
    /\ cpc = "start"
    /\ \E resp \in ListResponses :
        /\ listCalls' = listCalls + 1
        /\ IF resp.kind = "raise" \/ resp.entries = <<>>
           THEN /\ cpc' = "returned"
                /\ UNCHANGED <<entries, csv_file, csv_rows, OUTPUT_CSV>>
           ELSE /\ cpc' = "next"
                /\ entries' = resp.entries
                /\ csv_file' = "open"
                /\ csv_rows' = <<>>
                /\ OUTPUT_CSV' = "new"
    /\ UNCHANGED <<idx, video_id, transcript, log, expected>>
    /\ UNCHANGED otherThanChannel

\* Lines 132-136: the for loop takes the next entry; one without an id is skipped.
NextEntry ==
    /\ cpc = "next"
    /\ idx < Len(entries)
    /\ idx' = idx + 1
    /\ video_id' = entries[idx + 1]
    /\ transcript' = <<>>
    /\ log' = <<>>
    /\ IF entries[idx + 1] = None
       THEN cpc' = "next" /\ expected' = Append(expected, <<>>)
       ELSE cpc' = "transcript" /\ UNCHANGED expected
    /\ UNCHANGED <<entries, csv_file, csv_rows, listCalls>>
    /\ UNCHANGED <<OUTPUT_CSV, otherThanChannel>>

\* Lines 140-152: fetch the transcript; any exception skips the video.
FetchTranscript ==
    /\ cpc = "transcript"
    /\ \E resp \in TranscriptResponses :
        LET r == fetch_transcript(resp)
            l == Append(log, <<"transcript", resp>>)
        IN  IF r.raised # "no"
            THEN /\ log' = Append(l, Throttle)
                 /\ cpc' = "next"
                 /\ expected' = Append(expected, OracleRow(video_id, log'))
                 /\ UNCHANGED transcript
            ELSE /\ log' = l
                 /\ transcript' = r.text
                 /\ cpc' = "meta"
                 /\ UNCHANGED expected
    /\ UNCHANGED <<entries, idx, video_id, csv_file, csv_rows, listCalls>>
    /\ UNCHANGED <<OUTPUT_CSV, otherThanChannel>>

\* A mutant of FetchMetadata: a rate-limited failure is skipped like any other.
FetchMetadataNoRetry ==
    /\ cpc = "meta"
    /\ \E resp \in MetaResponses :
        LET l == Append(log, <<"meta", resp>>)
        IN  IF resp.kind = "ok"
            THEN cpc' = "write" /\ log' = l /\ UNCHANGED expected
            ELSE /\ log' = Append(l, Throttle)
                 /\ cpc' = "next"
                 /\ expected' = Append(expected, OracleRow(video_id, log'))
    /\ UNCHANGED <<entries, idx, video_id, transcript, csv_file, csv_rows, listCalls>>
    /\ UNCHANGED <<OUTPUT_CSV, otherThanChannel>>

\* Lines 155-162 and 171-180: the first metadata call.
FetchMetadata ==
    /\ cpc = "meta"
    /\ \E resp \in MetaResponses :
        LET l == Append(log, <<"meta", resp>>)
        IN  CASE resp.kind = "ok" ->
                    cpc' = "write" /\ log' = l /\ UNCHANGED expected
              [] resp.kind = "DownloadError" /\ ContainsRateLimited(Lower(resp.msg)) ->
                    /\ log' = Append(l, Sleep60)
                    /\ cpc' = "retry"
                    /\ UNCHANGED expected
              [] OTHER ->
                    /\ log' = Append(l, Throttle)
                    /\ cpc' = "next"
                    /\ expected' = Append(expected, OracleRow(video_id, log'))
    /\ UNCHANGED <<entries, idx, video_id, transcript, csv_file, csv_rows, listCalls>>
    /\ UNCHANGED <<OUTPUT_CSV, otherThanChannel>>

\* A mutant of RetryMetadata: a failed retry is not noticed, the row is written.
RetryMetadataUnnoticed ==
    /\ cpc = "retry"
    /\ \E resp \in MetaResponses :
        /\ log' = Append(log, <<"meta", resp>>)
        /\ cpc' = "write"
    /\ UNCHANGED <<entries, idx, video_id, transcript, csv_file, csv_rows, listCalls,
                   expected>>
    /\ UNCHANGED <<OUTPUT_CSV, otherThanChannel>>

\* Lines 163-170: after the 60 s sleep, the one retry; any exception skips the video.
RetryMetadata ==
    /\ cpc = "retry"
    /\ \E resp \in MetaResponses :
        LET l == Append(log, <<"meta", resp>>)
        IN  IF resp.kind = "ok"
            THEN cpc' = "write" /\ log' = l /\ UNCHANGED expected
            ELSE /\ log' = Append(l, Throttle)
                 /\ cpc' = "next"
                 /\ expected' = Append(expected, OracleRow(video_id, log'))
    /\ UNCHANGED <<entries, idx, video_id, transcript, csv_file, csv_rows, listCalls>>
    /\ UNCHANGED <<OUTPUT_CSV, otherThanChannel>>

\* Lines 182-203: write the row, then throttle.  The metadata fields copied into
\* the row (views, likes, comments, title, published_at) are not modelled.
WriteRow ==
    /\ cpc = "write"
    /\ csv_rows' = Append(csv_rows, [video_id |-> video_id, transcript |-> transcript])
    /\ log' = log \o << <<"writerow", video_id>>, Throttle >>
    /\ cpc' = "next"
    /\ expected' = Append(expected, OracleRow(video_id, log'))
    /\ UNCHANGED <<entries, idx, video_id, transcript, csv_file, listCalls>>
    /\ UNCHANGED <<OUTPUT_CSV, otherThanChannel>>

\* A mutant of Finish: the run ends without closing the file.
FinishNoClose ==
    /\ cpc = "next"
    /\ idx = Len(entries)
    /\ cpc' = "finished"
    /\ UNCHANGED <<entries, idx, video_id, transcript, csv_file, csv_rows, listCalls, log,
                   expected>>
    /\ UNCHANGED <<OUTPUT_CSV, otherThanChannel>>

\* Line 205: the loop is over; close the file.
Finish ==
    /\ cpc = "next"
    /\ idx = Len(entries)
    /\ csv_file' = "closed"
    /\ cpc' = "finished"
    /\ UNCHANGED <<entries, idx, video_id, transcript, csv_rows, listCalls, log, expected>>
    /\ UNCHANGED <<OUTPUT_CSV, otherThanChannel>>

NextChannel ==
    \/ ListUploads
    \/ NextEntry
    \/ FetchTranscript
    \/ FetchMetadata
    \/ RetryMetadata
    \/ WriteRow
    \/ Finish

(***************************************************************************)
(* main.py                                                                 *)
(***************************************************************************)
\* float('inf'); a finite upper bound n is <<n>>.
Inf == <<>>

TIERS ==
    << [name |-> "viral",   min_views |-> 1000000, max_views |-> Inf],
       [name |-> "popular", min_views |-> 100000,  max_views |-> <<1000000>>],
       [name |-> "mid",     min_views |-> 10000,   max_views |-> <<100000>>],
       [name |-> "niche",   min_views |-> 0,       max_views |-> <<10000>>] >>

\* A mutant of InRange: the upper bound is taken as inclusive.
InRangeClosed(views, min_views, max_views) ==
    min_views <= views /\ (max_views = Inf \/ views <= max_views[1])

\* Line 114: min_views <= views < max_views
InRange(views, min_views, max_views) ==
    min_views <= views /\ (max_views = Inf \/ views < max_views[1])

VideoIds == 1..MaxNeeded

\* The view counts the search service reports: none, and one inside each of
\* the three upper tiers.
SearchViewCounts == {Missing, Some(50000), Some(150000), Some(1000000)}

\* An entry of a search batch: e.get('id') and e.get('view_count').
Candidates == [id : VideoIds, view_count : SearchViewCounts]

\* ydl.extract_info("ytsearch50:<q>"): a batch of n entries, or a failure.
SearchResponses == {[kind |-> "ok", n |-> k] : k \in 0..MaxBatch} \cup Failures

\* What get_transcript answers to the sampler.
SearchTranscriptResponses ==
    {[kind |-> "TranscriptsDisabled"], [kind |-> "Exception"]}
        \cup {[kind |-> "segments", segs |-> c] :
                c \in { <<>>, << <<" ">> >>, << <<"h", " ", "w">> >> }}

\* fetch_transcript of main.py (the same code as in data_scraper_channel.py).
main_fetch_transcript(resp) ==
    IF resp.kind # "segments"
    THEN [raised |-> resp.kind, text |-> <<>>]
    ELSE LET text == Strip(Join(resp.segs))
         IN  IF text = <<>>
             THEN [raised |-> "ValueError", text |-> <<>>]
             ELSE [raised |-> "no", text |-> text]

NoCandidate == [id |-> 0, views |-> 0]
NoResponse == [kind |-> "none"]

Ids(records) == {records[i].video_id : i \in DOMAIN records}

\* Where the scan of the batch goes on: the for loop ends when no entry is left.
AfterEntry(left) == IF left = 0 THEN "pause" ELSE "scan"

InitSamplerAt(pc) ==
    /\ spc = pc
    /\ needed \in (IF pc = "off" THEN {0} ELSE 0..MaxNeeded)
    /\ tiersDone = 0
    /\ collected = <<>>
    /\ tries = 0
    /\ entriesLeft = 0
    /\ cand = NoCandidate
    /\ all_videos = <<>>
    /\ out_file = "absent"
    /\ out_rows = <<>>
    /\ sresp = NoResponse
    /\ stresp = NoResponse
    /\ slept = <<>>

\* Lines 157-159 and 81-84: main() calls search_and_filter for the next tier.
StartTier ==
    /\ spc = "main"
    /\ tiersDone < Len(TIERS)
    /\ collected' = <<>>
    /\ tries' = 0
    /\ slept' = <<>>
    /\ sresp' = NoResponse
    /\ spc' = "while"
    /\ UNCHANGED <<needed, tiersDone, entriesLeft, cand, all_videos, out_file, out_rows,
                   stresp>>
    /\ UNCHANGED otherThanSampler

\* Lines 86-89: the quota is not met; another iteration begins.
Iterate ==
    /\ spc = "while"
    /\ Len(collected) < needed
    /\ tries' = (IF tries < MaxTries THEN tries + 1 ELSE tries)
    /\ slept' = <<>>
    /\ sresp' = NoResponse
    /\ spc' = "search"
    /\ UNCHANGED <<needed, tiersDone, collected, entriesLeft, cand, all_videos, out_file,
                   out_rows, stresp>>
    /\ UNCHANGED otherThanSampler

\* Lines 92-105: the search call.
Search ==
    /\ spc = "search"
    /\ \E resp \in SearchResponses :
        /\ sresp' = (IF resp.kind = "ok" THEN [kind |-> "ok"] ELSE resp)
        /\ CASE resp.kind = "ok" ->
                   /\ entriesLeft' = resp.n
                   /\ spc' = AfterEntry(resp.n)
                   /\ UNCHANGED slept
             [] resp.kind = "DownloadError" ->
                   /\ slept' = Append(slept, <<"sleep",
                                   IF ContainsRateLimited(Lower(resp.msg)) THEN 60 ELSE 10>>)
                   /\ spc' = "while"
                   /\ UNCHANGED entriesLeft
             [] OTHER ->
                   \* no except clause matches: the exception leaves main()
                   /\ spc' = "aborted"
                   /\ UNCHANGED <<entriesLeft, slept>>
    /\ UNCHANGED <<needed, tiersDone, collected, tries, cand, all_videos, out_file,
                   out_rows, stresp>>
    /\ UNCHANGED otherThanSampler

\* A mutant of Examine: a video already collected is not passed over.
ExamineNoDedup ==
    /\ spc = "scan"
    /\ entriesLeft > 0
    /\ \E e \in Candidates :
        LET vid == e.id
            views == OrZero(e.view_count)
            tier == TIERS[tiersDone + 1]
        IN  /\ entriesLeft' = entriesLeft - 1
            /\ IF ~InRange(views, tier.min_views, tier.max_views)
               THEN spc' = AfterEntry(entriesLeft') /\ UNCHANGED cand
               ELSE spc' = "transcript" /\ cand' = [id |-> vid, views |-> views]
    /\ stresp' = NoResponse
    /\ UNCHANGED <<needed, sresp, tiersDone, collected, tries, all_videos, out_file,
                   out_rows, slept>>
    /\ UNCHANGED otherThanSampler

\* Lines 108-115: the for loop reads the next entry and filters it.
Examine ==
    /\ spc = "scan"
    /\ entriesLeft > 0
    /\ \E e \in Candidates :
        LET vid == e.id
            views == OrZero(e.view_count)
            tier == TIERS[tiersDone + 1]
        IN  /\ entriesLeft' = entriesLeft - 1
            /\ IF vid \in Ids(collected)
               THEN spc' = AfterEntry(entriesLeft') /\ UNCHANGED cand
               ELSE IF ~InRange(views, tier.min_views, tier.max_views)
               THEN spc' = AfterEntry(entriesLeft') /\ UNCHANGED cand
               ELSE spc' = "transcript" /\ cand' = [id |-> vid, views |-> views]
    /\ stresp' = NoResponse
    /\ UNCHANGED <<needed, sresp, tiersDone, collected, tries, all_videos, out_file,
                   out_rows, slept>>
    /\ UNCHANGED otherThanSampler

\* A mutant of CheckTranscript: the scan goes on although the quota is met.
CheckTranscriptNoBreak ==
    /\ spc = "transcript"
    /\ \E resp \in SearchTranscriptResponses :
        LET r == main_fetch_transcript(resp)
        IN  /\ stresp' = resp
            /\ spc' = AfterEntry(entriesLeft)
            /\ IF r.raised # "no"
               THEN UNCHANGED collected
               ELSE collected' = Append(collected,
                        [video_id |-> cand.id, views |-> cand.views,
                         transcript |-> r.text])
    /\ cand' = NoCandidate
    /\ UNCHANGED <<needed, sresp, tiersDone, tries, entriesLeft, all_videos, out_file,
                   out_rows, slept>>
    /\ UNCHANGED otherThanSampler

\* Lines 118-141: fetch the candidate's transcript; accept it if there is one.
CheckTranscript ==
    /\ spc = "transcript"
    /\ \E resp \in SearchTranscriptResponses :
        LET r == main_fetch_transcript(resp)
        IN  /\ stresp' = resp
            /\ IF r.raised # "no"
               THEN spc' = AfterEntry(entriesLeft) /\ UNCHANGED collected
               ELSE /\ collected' = Append(collected,
                            [video_id |-> cand.id, views |-> cand.views,
                             transcript |-> r.text])
                    /\ spc' = (IF Len(collected') >= needed
                               THEN "pause"
                               ELSE AfterEntry(entriesLeft))
    /\ cand' = NoCandidate
    /\ UNCHANGED <<needed, sresp, tiersDone, tries, entriesLeft, all_videos, out_file, out_rows,
                   slept>>
    /\ UNCHANGED otherThanSampler

\* A mutant of Pause: the iteration ends without the throttle sleep.
PauseNoSleep ==
    /\ spc = "pause"
    /\ entriesLeft' = 0
    /\ spc' = "while"
    /\ stresp' = NoResponse
    /\ UNCHANGED <<needed, sresp, tiersDone, collected, tries, cand, all_videos, out_file,
                   out_rows, slept>>
    /\ UNCHANGED otherThanSampler

\* Lines 143-146: the throttle at the end of an iteration.
Pause ==
    /\ spc = "pause"
    /\ slept' = Append(slept, Throttle)
    /\ entriesLeft' = 0
    /\ spc' = "while"
    /\ stresp' = NoResponse
    /\ UNCHANGED <<needed, sresp, tiersDone, collected, tries, cand, all_videos, out_file,
                   out_rows>>
    /\ UNCHANGED otherThanSampler

\* A mutant of Return: the loop also gives up once tries reaches MaxTries.
ReturnAfterTries ==
    /\ spc = "while"
    /\ ~(Len(collected) < needed /\ tries < MaxTries)
    /\ all_videos' = all_videos \o collected
    /\ tiersDone' = tiersDone + 1
    /\ spc' = "main"
    /\ UNCHANGED <<needed, sresp, collected, tries, entriesLeft, cand, out_file, out_rows,
                   stresp, slept>>
    /\ UNCHANGED otherThanSampler

\* Lines 148-149 and 160: the quota is met; the tier's records go to main().
Return ==
    /\ spc = "while"
    /\ ~(Len(collected) < needed)
    /\ all_videos' = all_videos \o collected
    /\ tiersDone' = tiersDone + 1
    /\ spc' = "main"
    /\ UNCHANGED <<needed, sresp, collected, tries, entriesLeft, cand, out_file, out_rows,
                   stresp, slept>>
    /\ UNCHANGED otherThanSampler

\* Lines 163-171: every tier is done; write the CSV.
WriteCsv ==
    /\ spc = "main"
    /\ tiersDone = Len(TIERS)
    /\ out_file' = "closed"
    /\ out_rows' = all_videos
    /\ spc' = "done"
    /\ UNCHANGED <<needed, sresp, tiersDone, collected, tries, entriesLeft, cand, all_videos,
                   stresp, slept>>
    /\ UNCHANGED otherThanSampler

NextSampler ==
    \/ StartTier
    \/ Iterate
    \/ Search
    \/ Examine
    \/ CheckTranscript
    \/ Pause
    \/ Return
    \/ WriteCsv

(***************************************************************************)
(* main.py, the tier filter alone: one view count is put to the filter of  *)
(* every tier of TIERS in turn (lines 110 and 114).                        *)
(***************************************************************************)
\* The tier boundaries of TIERS.
Boundaries == {TIERS[i].min_views : i \in 1..Len(TIERS)}

\* The view counts with a tier boundary at most MaxDelta away.
ViewSamples ==
    {v \in {b + d : b \in Boundaries, d \in (0 - MaxDelta)..MaxDelta} : v >= 0}

InitFilterAt(pc) ==
    /\ fpc = pc
    /\ view_count \in (IF pc = "off" THEN {Missing}
                       ELSE {Missing} \cup {Some(v) : v \in ViewSamples})
    /\ tierNo = 0
    /\ passes = {}

ApplyFilter ==
    /\ fpc = "filter"
    /\ tierNo < Len(TIERS)
    /\ LET views == OrZero(view_count)
           tier == TIERS[tierNo + 1]
       IN  passes' = IF InRange(views, tier.min_views, tier.max_views)
                     THEN passes \cup {tier.name}
                     ELSE passes
    /\ tierNo' = tierNo + 1
    /\ UNCHANGED <<fpc, view_count>>
    /\ UNCHANGED otherThanFilter

NextFilter == ApplyFilter

(***************************************************************************)
(* sentiment_analyzer_transformer.py, transcript_to_id_chunks              *)
(***************************************************************************)
TokenIds == {101, 102}

\* range(0, n, step)
RangeStep(n, step) == {i \in 0..(n - 1) : i % step = 0}

\* token_ids[i : j], a Python slice with 0 <= i
Slice(s, i, j) == SubSeq(s, i + 1, Min(j, Len(s)))

\* A mutant of transcript_to_id_chunks: the slice ends one token early.
transcript_to_id_chunks_short(ids, size) ==
    [k \in 1..Cardinality(RangeStep(Len(ids), size)) |->
        Slice(ids, (k - 1) * size, (k - 1) * size + size - 1)]

\* Lines 55-58, given the token ids tokenizer.encode returned: the chunk for
\* each i of range(0, len(token_ids), chunk_size), in order.
transcript_to_id_chunks(ids, size) ==
    [k \in 1..Cardinality(RangeStep(Len(ids), size)) |->
        Slice(ids, (k - 1) * size, (k - 1) * size + size)]

InitChunkerAt(pc) ==
    /\ tpc = pc
    /\ token_ids \in (IF pc = "off" THEN {<<>>} ELSE SeqsUpTo(TokenIds, MaxTokens))
    /\ chunk_size \in (IF pc = "off" THEN {1} ELSE 1..MaxChunk)
    /\ chunks = <<>>

Chunk ==
    /\ tpc = "chunk"
    /\ chunks' = transcript_to_id_chunks(token_ids, chunk_size)
    /\ tpc' = "chunked"
    /\ UNCHANGED <<token_ids, chunk_size>>
    /\ UNCHANGED otherThanChunker

NextChunker == Chunk

(***************************************************************************)
(* sentiment_analyzer_transformer.py, the scoring loop (lines 60-107)      *)
(***************************************************************************)
\* What the classifier can answer for a window: <<neg_prob, pos_prob>> in percent.
Probs == {<<10, 90>>, <<80, 20>>}

\* sum(xs)
RECURSIVE Sum(_)
Sum(xs) == IF xs = <<>> THEN 0 ELSE Head(xs) + Sum(Tail(xs))

InitScorerAt(pc) ==
    /\ rpc = pc
    /\ window \in (IF pc = "off" THEN {1} ELSE 1..MaxChunk)
    /\ rowsLeft \in (IF pc = "off" THEN {0} ELSE 0..MaxRows)
    /\ nTokens = 0
    /\ id_chunks = <<>>
    /\ modelCalls = 0
    /\ chunk_neg = <<>>
    /\ chunk_pos = <<>>
    /\ all_neg_probs = <<>>
    /\ all_pos_probs = <<>>
    /\ all_scores = <<>>
    /\ scored_csv = "absent"

\* Lines 65-71: the next row; its transcript is tokenized and cut into chunks.
NextRow ==
    /\ rpc = "rows"
    /\ rowsLeft > 0
    /\ rowsLeft' = rowsLeft - 1
    /\ \E ids \in SeqsUpTo(TokenIds, MaxTokens) :
        /\ nTokens' = Len(ids)
        /\ id_chunks' = transcript_to_id_chunks(ids, window)
    /\ modelCalls' = 0
    /\ chunk_neg' = <<>>
    /\ chunk_pos' = <<>>
    /\ rpc' = "chunks"
    /\ UNCHANGED <<window, all_neg_probs, all_pos_probs, all_scores, scored_csv>>
    /\ UNCHANGED otherThanScorer

\* Lines 73-91: the classifier is run on the next chunk.
RunModel ==
    /\ rpc = "chunks"
    /\ id_chunks # <<>>
    /\ id_chunks' = Tail(id_chunks)
    /\ modelCalls' = modelCalls + 1
    /\ \E probs \in Probs :
        /\ chunk_neg' = Append(chunk_neg, probs[1])
        /\ chunk_pos' = Append(chunk_pos, probs[2])
    /\ UNCHANGED <<rpc, window, rowsLeft, nTokens, all_neg_probs, all_pos_probs, all_scores,
                   scored_csv>>
    /\ UNCHANGED otherThanScorer

\* A mutant of Average: a row without chunks is passed over.
AverageSkipsEmpty ==
    /\ rpc = "chunks"
    /\ id_chunks = <<>>
    /\ rpc' = "rows"
    /\ IF Len(chunk_neg) = 0
       THEN UNCHANGED <<all_neg_probs, all_pos_probs, all_scores>>
       ELSE /\ all_neg_probs' = Append(all_neg_probs, <<Sum(chunk_neg), Len(chunk_neg)>>)
            /\ all_pos_probs' = Append(all_pos_probs, <<Sum(chunk_pos), Len(chunk_pos)>>)
            /\ all_scores' = Append(all_scores,
                    <<Sum(chunk_pos) - Sum(chunk_neg), Len(chunk_neg)>>)
    /\ UNCHANGED <<window, rowsLeft, nTokens, id_chunks, modelCalls, chunk_neg, chunk_pos,
                   scored_csv>>
    /\ UNCHANGED otherThanScorer

\* Lines 93-100: the averages over the row's chunks.  The division by
\* len(chunk_neg) raises ZeroDivisionError when there is no chunk; nothing
\* catches it, and the script ends there.
Average ==
    /\ rpc = "chunks"
    /\ id_chunks = <<>>
    /\ IF Len(chunk_neg) = 0
       THEN /\ rpc' = "ZeroDivisionError"
            /\ UNCHANGED <<all_neg_probs, all_pos_probs, all_scores>>
       ELSE /\ rpc' = "rows"
            /\ all_neg_probs' = Append(all_neg_probs, <<Sum(chunk_neg), Len(chunk_neg)>>)
            /\ all_pos_probs' = Append(all_pos_probs, <<Sum(chunk_pos), Len(chunk_pos)>>)
            /\ all_scores' = Append(all_scores,
                    <<Sum(chunk_pos) - Sum(chunk_neg), Len(chunk_neg)>>)
    /\ UNCHANGED <<window, rowsLeft, nTokens, id_chunks, modelCalls, chunk_neg, chunk_pos,
                   scored_csv>>
    /\ UNCHANGED otherThanScorer

\* Lines 102-107: every row is scored; the columns are attached and the CSV saved.
SaveScores ==
    /\ rpc = "rows"
    /\ rowsLeft = 0
    /\ scored_csv' = "written"
    /\ rpc' = "saved"
    /\ UNCHANGED <<window, rowsLeft, nTokens, id_chunks, modelCalls, chunk_neg, chunk_pos,
                   all_neg_probs, all_pos_probs, all_scores>>
    /\ UNCHANGED otherThanScorer

NextScorer ==
    \/ NextRow
    \/ RunModel
    \/ Average
    \/ SaveScores

(***************************************************************************)
(* The specifications: one script runs.                                    *)
(***************************************************************************)
InitChannel ==
    InitChannelAt("start") /\ InitSamplerAt("off") /\ InitFilterAt("off")
        /\ InitChunkerAt("off") /\ InitScorerAt("off")

InitSampler ==
    InitChannelAt("off") /\ InitSamplerAt("main") /\ InitFilterAt("off")
        /\ InitChunkerAt("off") /\ InitScorerAt("off")

InitFilter ==
    InitChannelAt("off") /\ InitSamplerAt("off") /\ InitFilterAt("filter")
        /\ InitChunkerAt("off") /\ InitScorerAt("off")

InitChunker ==
    InitChannelAt("off") /\ InitSamplerAt("off") /\ InitFilterAt("off")
        /\ InitChunkerAt("chunk") /\ InitScorerAt("off")

InitScorer ==
    InitChannelAt("off") /\ InitSamplerAt("off") /\ InitFilterAt("off")
        /\ InitChunkerAt("off") /\ InitScorerAt("rows")

SpecChannel == InitChannel /\ [][NextChannel]_vars
SpecSampler == InitSampler /\ [][NextSampler]_vars
SpecFilter == InitFilter /\ [][NextFilter]_vars
SpecChunker == InitChunker /\ [][NextChunker]_vars
SpecScorer == InitScorer /\ [][NextScorer]_vars

\* Either harvesting script runs.
Init == InitChannel \/ InitSampler
Next == NextChannel \/ NextSampler
Spec == Init /\ [][Next]_vars

(***************************************************************************)
(* The sampler under fairness: the program takes its next step, and the    *)
(* services again and again return a batch, in it a new candidate of the   *)
(* tier, and for it a transcript.                                          *)
(***************************************************************************)
SearchSucceeds == Search /\ spc' = "scan"
FindsCandidate == Examine /\ spc' = "transcript"
Accepts == CheckTranscript /\ Len(collected') > Len(collected)
\* The search call fails and the loop goes round.
SearchBacksOff == Search /\ spc' = "while"

FairSampler ==
    /\ SpecSampler
    /\ WF_vars(NextSampler)
    /\ SF_vars(SearchSucceeds)
    /\ SF_vars(FindsCandidate)
    /\ SF_vars(Accepts)

(***************************************************************************)
(* The claims.                                                             *)
(***************************************************************************)
\* Some character of the text is not white space.
NonBlank(text) == \E i \in 1..Len(text) : text[i] # " "

\* The error texts that contain "rate-limited" once lower-cased.
RateLimitMessages ==
    { "The current session has been rate-limited by YouTube",
      "HTTP Error 429: Rate-Limited" }

Distinct(records) ==
    \A i, j \in DOMAIN records : i # j => records[i].video_id # records[j].video_id

\* ---- C1
C1_AllNonBlank ==
    /\ \A i \in DOMAIN csv_rows : NonBlank(csv_rows[i].transcript)
    /\ \A i \in DOMAIN collected : NonBlank(collected[i].transcript)
    /\ \A i \in DOMAIN all_videos : NonBlank(all_videos[i].transcript)
    /\ \A i \in DOMAIN out_rows : NonBlank(out_rows[i].transcript)

\* Past the transcript fetch of the channel harvest, the service returned
\* captions with text, and `transcript` is that text.
C1_ChannelFetched ==
    (cpc \in {"meta", "retry", "write"} \/ Calls(log, "writerow") # <<>>) =>
        LET t == Calls(log, "transcript")
        IN  /\ Len(t) = 1
            /\ HasCaptionText(t[1][2])
            /\ transcript = Strip(Join(t[1][2].segs))

C1_Step ==
    /\ csv_rows' # csv_rows =>
        /\ cpc = "write"
        /\ csv_rows' = Append(csv_rows, [video_id |-> video_id, transcript |-> transcript])
    /\ (cpc = "transcript" /\ cpc' # "transcript"
            /\ ~HasCaptionText(Calls(log', "transcript")[1][2])) =>
        cpc' = "next" /\ csv_rows' = csv_rows
    /\ (spc = "transcript" /\ spc' # "transcript") =>
        IF HasCaptionText(stresp')
        THEN /\ Len(collected') = Len(collected) + 1
             /\ collected'[Len(collected')].transcript = Strip(Join(stresp'.segs))
        ELSE collected' = collected
    /\ collected' # collected => spc \in {"transcript", "main"}
    /\ all_videos' # all_videos => all_videos' = all_videos \o collected
    /\ out_rows' # out_rows => out_rows' = all_videos

\* C1: in both harvests a record is written (channel) or collected (sampler)
\* only when fetch_transcript returned for that video, the stored transcript
\* is not blank, and a video whose transcript fetch raised gets no record.
C1_TranscriptRequired ==
    [](C1_AllNonBlank /\ C1_ChannelFetched) /\ [][C1_Step]_vars

\* A row was written, and a later video was skipped as its captions are disabled.
C1_Witness ==
    /\ cpc = "next"
    /\ Len(csv_rows) >= 1
    /\ Len(Calls(log, "transcript")) = 1
    /\ Calls(log, "transcript")[1][2].kind = "TranscriptsDisabled"

\* ---- C2
\* C2: no two rows of one output CSV carry the same video_id (the sampler's
\* output over all tiers, the channel harvest's output over all entries).
C2_UniqueVideoIds == Distinct(out_rows) /\ Distinct(csv_rows)

\* ---- C3
\* C3: a view count passes a tier's filter iff min_views <= views < max_views;
\* a count equal to a tier's upper bound fails that tier and passes the next
\* tier up; once all of TIERS were tried, exactly one tier was passed.
C3_HalfOpenTiers ==
    LET v == IF view_count = <<>> THEN 0 ELSE view_count[1]
    IN  fpc = "filter" =>
            /\ \A k \in 1..Len(TIERS) :
                (TIERS[k].name \in passes) =
                    (/\ k <= tierNo
                     /\ TIERS[k].min_views <= v
                     /\ (TIERS[k].max_views = <<>> \/ v < TIERS[k].max_views[1]))
            /\ tierNo = Len(TIERS) =>
                /\ Cardinality(passes) = 1
                /\ \A k \in 2..Len(TIERS) :
                    v = TIERS[k].max_views[1] =>
                        TIERS[k].name \notin passes /\ TIERS[k - 1].name \in passes

\* 100_000 views: rejected by mid, whose upper bound it is, accepted by popular.
C3_Witness ==
    /\ fpc = "filter"
    /\ tierNo = Len(TIERS)
    /\ view_count = <<100000>>
    /\ passes = {"popular"}

\* ---- C4
\* C4: per video at most two metadata calls; a second one only after a first
\* that failed with a rate-limited DownloadError, and with the 60 s sleep
\* between the two; the row is written iff the last call succeeded, and any
\* other failure skips the video with no further call.
C4_RetryOnce ==
    LET m == Calls(log, "meta")
        wrote == Calls(log, "writerow") # <<>>
        rateLimited(r) == r.kind = "DownloadError" /\ r.msg \in RateLimitMessages
        metaAt == {i \in DOMAIN log : log[i][1] = "meta"}
    IN  /\ Len(m) <= 2
        /\ \A i, j \in metaAt :
            i < j => \E k \in (i + 1)..(j - 1) : log[k][1] = "sleep" /\ log[k][2] = 60
        /\ wrote => /\ m[Len(m)][2].kind = "ok"
                    /\ csv_rows[Len(csv_rows)].video_id = video_id
        /\ Len(m) >= 1 =>
            IF m[1][2].kind = "ok"
            THEN Len(m) = 1 /\ (cpc = "write" \/ wrote)
            ELSE IF rateLimited(m[1][2])
            THEN \/ Len(m) = 1 /\ cpc = "retry" /\ log[Len(log)][1] = "sleep"
                 \/ Len(m) = 2 /\ m[2][2].kind = "ok" /\ (cpc = "write" \/ wrote)
                 \/ Len(m) = 2 /\ m[2][2].kind # "ok" /\ cpc \in {"next", "finished"} /\ ~wrote
            ELSE Len(m) = 1 /\ cpc \in {"next", "finished"} /\ ~wrote

\* The first call was rate-limited, the retry succeeded and the row was written.
C4_Witness ==
    LET m == Calls(log, "meta")
    IN  /\ Len(m) = 2
        /\ m[2][2].kind = "ok"
        /\ Calls(log, "writerow") # <<>>

\* ---- C5
C5_Accept ==
    Len(collected') > Len(collected) =>
        LET r == collected'[Len(collected')]
            tier == TIERS[tiersDone + 1]
        IN  /\ collected' = Append(collected, r)
            /\ \A i \in DOMAIN collected : collected[i].video_id # r.video_id
            /\ tier.min_views <= r.views
            /\ tier.max_views = <<>> \/ r.views < tier.max_views[1]
            /\ HasCaptionText(stresp')

C5_Continue ==
    Len(collected) < needed =>
        /\ spc = "pause" => spc' \in {"pause", "while"}
        /\ spc = "while" => spc' \in {"while", "search"}

\* C5: a candidate is accepted only if it is not yet collected, its views are
\* in the tier's range and its transcript fetch succeeded; while fewer than
\* `needed` are collected, the end of a batch leads to another search.
C5_AcceptedInRangeOnly == [][C5_Accept /\ C5_Continue]_vars

\* Tier mid, needed = 2: one candidate of 50_000 views is collected, the first
\* batch is used up and a second search is about to be issued.
C5_Witness ==
    /\ spc = "search"
    /\ TIERS[tiersDone + 1].name = "mid"
    /\ needed = 2
    /\ Len(collected) = 1
    /\ collected[1].views = 50000
    /\ tries = 2

\* ---- C6
\* C6: the CSV holds, in listing order, exactly the rows of the entries for
\* which the transcript service returned captions with text and the metadata
\* service answered the call or its retry; every other entry is passed over
\* and the loop goes on to the end of the listing.
C6_ExactRows ==
    /\ cpc \in {"next", "finished"} => Len(expected) = idx
    /\ cpc \in {"transcript", "meta", "retry", "write"} => Len(expected) = idx - 1
    /\ cpc # "off" => csv_rows = Flatten(expected)
    /\ \A i \in DOMAIN expected :
        expected[i] # <<>> =>
            Len(expected[i]) = 1 /\ expected[i][1].video_id = entries[i]
    /\ cpc = "finished" => idx = Len(entries)

\* Listing A, B, C: only C's row, with the transcript "h w", is in the CSV.
C6_Witness ==
    /\ cpc = "finished"
    /\ entries = <<"A", "B", "C">>
    /\ csv_rows = << [video_id |-> "C", transcript |-> <<"h", " ", "w">>] >>

\* ---- C7
\* C7: for L tokens and chunk size C >= 1 there are ceil(L / C) windows, each
\* of 1..C tokens, all but the last of exactly C, and their concatenation is
\* the token sequence.
C7_ChunksPartition ==
    tpc = "chunked" =>
        LET L == Len(token_ids)
            C == chunk_size
            n == Len(chunks)
        IN  /\ n = (L + C - 1) \div C
            /\ \A k \in 1..n :
                /\ 1 <= Len(chunks[k])
                /\ Len(chunks[k]) <= C
                /\ k < n => Len(chunks[k]) = C
            /\ Flatten(chunks) = token_ids

\* Four tokens in chunks of three: a full window and a shorter last one.
C7_Witness ==
    /\ tpc = "chunked"
    /\ Len(token_ids) = 4
    /\ chunk_size = 3
    /\ Len(chunks) = 2
    /\ Len(chunks[2]) = 1

\* ---- C8
C8_Untouched ==
    /\ collected' = collected
    /\ cand' = cand
    /\ entriesLeft' = entriesLeft
    /\ all_videos' = all_videos

\* C8 as stated: whatever error the search call raises, the sampler sleeps
\* (60 s when rate-limited, 10 s otherwise) and restarts the iteration with
\* `collected` unchanged; no error ends the loop or the run.
C8_AnyErrorBacksOff ==
    [][(spc = "search" /\ sresp'.kind \in {"DownloadError", "Exception"}) =>
            /\ C8_Untouched
            /\ spc' = "while"
            /\ slept' = Append(slept,
                    <<"sleep", IF sresp'.msg \in RateLimitMessages THEN 60 ELSE 10>>)]_vars

C8_Step ==
    (spc = "search" /\ sresp'.kind \in {"DownloadError", "Exception"}) =>
        /\ C8_Untouched
        /\ IF sresp'.kind = "DownloadError"
           THEN /\ spc' = "while"
                /\ slept' = Append(slept,
                        <<"sleep", IF sresp'.msg \in RateLimitMessages THEN 60 ELSE 10>>)
           ELSE /\ spc' = "aborted"
                /\ slept' = slept

\* C8, amended: a DownloadError of the search call is backed off (60 s when
\* rate-limited, 10 s otherwise) and the iteration restarts with `collected`
\* unchanged, any number of times; an exception of another type is not
\* caught and ends the run, with no CSV written.
C8_DownloadErrorBacksOff ==
    /\ [][C8_Step]_vars
    /\ []((spc = "while" /\ sresp.kind = "DownloadError") => ENABLED Iterate)
    /\ [](spc = "aborted" => out_file = "absent" /\ ~ENABLED NextSampler)

\* A rate-limited search was backed off in an iteration past the first.
C8_Witness ==
    /\ spc = "while"
    /\ sresp.kind = "DownloadError"
    /\ slept = << <<"sleep", 60>> >>
    /\ tries = MaxTries

\* ---- C9
C9_Inv ==
    needed >= 1 =>
        /\ Len(collected) <= needed
        /\ Distinct(collected)
        /\ Len(collected) >= needed => spc \in {"pause", "while", "main", "done"}

C9_Step ==
    needed >= 1 =>
        /\ (spc = "while" /\ spc' = "main") =>
            /\ Len(collected) = needed
            /\ all_videos' = all_videos \o collected
        /\ (Len(collected) >= needed /\ spc \in {"pause", "while"}) =>
            /\ collected' = collected
            /\ sresp' = sresp
            /\ spc' \in {"pause", "while", "main"}

\* C9: for needed >= 1, `collected` never exceeds `needed`, its video_ids are
\* distinct, the function returns exactly `needed` records, and once the quota
\* is reached only the pause and the return follow in that tier.
C9_QuotaExact == []C9_Inv /\ [][C9_Step]_vars

\* The quota of 2 was reached by a break that left an entry of the batch unread.
C9_Witness ==
    /\ spc = "pause"
    /\ needed = 2
    /\ Len(collected) = 2
    /\ entriesLeft > 0

\* ---- C10
C10_Inv ==
    /\ spc \in {"main", "done"} => Len(all_videos) = tiersDone * needed
    /\ out_file = "closed" =>
        tiersDone = Len(TIERS) /\ Len(out_rows) = Len(TIERS) * needed
    /\ (spc = "while" /\ Len(collected) < needed) => ENABLED Iterate /\ ~ENABLED Return
    /\ spc = "search" => ENABLED SearchBacksOff

\* C10: search_and_filter returns only with the quota met, whatever `tries`
\* is, and from every search a failure can lead back into the loop; main()
\* writes the CSV only after every tier's quota is met; under the fairness
\* of FairSampler the run ends.
C10_NoIterationCap == []C10_Inv /\ <>(spc \in {"done", "aborted"})

\* The counter is at its cap and the loop goes on with the quota unmet.
C10_Witness ==
    /\ spc = "search"
    /\ tries = MaxTries
    /\ sresp = NoResponse
    /\ Len(collected) < needed
    /\ tiersDone = Len(TIERS) - 1

\* ---- C11
\* C11 as stated: every iteration of the search loop, whatever its outcome,
\* has made the random throttle sleep when the next search call is issued.
C11_ThrottleEveryIteration ==
    [][(spc = "while" /\ tries > 0 /\ spc' = "search") => Throttle \in Range(slept)]_vars

\* The sleeps of an iteration that has ended, by the outcome of its search.
C11_Inv ==
    /\ (spc = "while" /\ tries > 0) =>
            IF sresp.kind = "ok"
            THEN slept = <<Throttle>>
            ELSE /\ sresp.kind = "DownloadError"
                 /\ slept = << <<"sleep", IF sresp.msg \in RateLimitMessages
                                          THEN 60 ELSE 10>> >>
    /\ spc \in {"search", "scan", "transcript", "pause", "aborted"} => slept = <<>>

\* A search call is issued only from the head of the loop.
C11_Step == spc' = "search" => spc = "while" \/ spc = "search"

\* C11, amended: every iteration sleeps exactly once before the next search
\* call is issued: the random throttle when its search succeeded (candidates
\* accepted or not, also when the quota has just been met), and the fixed
\* back-off of 60 s or 10 s, without the throttle, when its search raised
\* DownloadError; a search failing otherwise ends the run with no sleep.
C11_OneSleepPerIteration == []C11_Inv /\ [][C11_Step]_vars

\* After an iteration that accepted a video, an iteration whose search failed
\* without a rate limit has ended with the 10 s back-off alone.
C11_Witness ==
    /\ spc = "while"
    /\ tries > 0
    /\ sresp.kind = "DownloadError"
    /\ slept = << <<"sleep", 10>> >>
    /\ Len(collected) > 0
    /\ Len(collected) < needed

\* ---- C12
C12_Inv ==
    /\ listCalls = (IF cpc = "start" THEN 0 ELSE 1)
    /\ cpc = "returned" =>
            /\ idx = 0 /\ entries = <<>>
            /\ log = <<>> /\ expected = <<>>
            /\ csv_file = "absent" /\ csv_rows = <<>>
            /\ OUTPUT_CSV # "new"
            /\ ~ENABLED NextChannel
    /\ cpc \notin {"start", "returned"} => Len(entries) >= 1 /\ OUTPUT_CSV = "new"

C12_Step ==
    /\ cpc' = "returned" => OUTPUT_CSV' = OUTPUT_CSV
    /\ listCalls' # listCalls => cpc = "start"

\* C12: the channel harvest calls the listing service exactly once per run;
\* when the call raises or returns no entries the run ends there, with no
\* further listing call, no transcript or metadata call, and the output path
\* left as it was (no file created, an earlier file not truncated).
C12_ListOnceNoRetry == [](cpc # "off" => C12_Inv) /\ [][C12_Step]_vars

\* The listing failed while an earlier run's file was at the output path.
C12_Witness ==
    /\ cpc = "returned"
    /\ listCalls = 1
    /\ OUTPUT_CSV = "old"

\* ---- C13
\* The channel harvest: the file is open exactly while the entries are worked
\* through, and closed when the run has finished.
C13_ChannelInv ==
    /\ cpc \in {"start", "returned"} => csv_file = "absent"
    /\ cpc \in {"next", "transcript", "meta", "retry", "write"} => csv_file = "open"
    /\ cpc = "finished" => csv_file = "closed"

\* It is opened once and closed once, and an accepted video's row is written
\* before the next entry is taken.
C13_ChannelStep ==
    /\ csv_file' # csv_file =>
            \/ csv_file = "absent" /\ csv_file' = "open" /\ cpc = "start"
            \/ csv_file = "open" /\ csv_file' = "closed" /\ cpc' = "finished"
    /\ (cpc = "write" /\ cpc' # "write") =>
            /\ csv_file = "open"
            /\ csv_rows' = Append(csv_rows,
                    [video_id |-> video_id, transcript |-> transcript])
            /\ idx' = idx

\* C13 as stated, for the sampler: the row of an accepted candidate is written
\* to the open output file when the candidate is accepted.
C13_SamplerIncremental ==
    Len(collected') > Len(collected) =>
        /\ out_file' = "open"
        /\ out_rows' = Append(out_rows, collected'[Len(collected')])

\* C13 as stated: in each harvesting script the output file is opened once,
\* every accepted record's row is written when the record is accepted, and
\* the file is closed at the end of the run.
C13_WrittenIncrementally ==
    [][C13_ChannelStep /\ C13_SamplerIncremental]_vars

\* The sampler: no file and no row before the last tier's quota is met.
C13_SamplerInv ==
    /\ spc \in {"main", "while", "search", "scan", "transcript", "pause", "aborted"} =>
            out_file = "absent" /\ out_rows = <<>>
    /\ spc = "done" => out_file = "closed" /\ out_rows = all_videos

C13_SamplerStep ==
    (out_file' # out_file \/ out_rows' # out_rows) =>
        /\ spc = "main" /\ tiersDone = Len(TIERS)
        /\ out_file = "absent" /\ out_file' = "closed"
        /\ out_rows' = all_videos
        /\ spc' = "done"

\* C13, amended: each harvesting script opens its output file once and closes
\* it at the end of the run on every path that opened it.  The channel
\* harvest writes incrementally: an accepted video's row is written before
\* the next video is taken.  The sampler keeps the accepted records in memory
\* and opens, writes and closes the file only after every tier's quota is met;
\* a run that ends earlier leaves no output file.
C13_OpenedOnceClosedAtEnd ==
    /\ [](C13_ChannelInv /\ C13_SamplerInv)
    /\ [][C13_ChannelStep /\ C13_SamplerStep]_vars

\* The sampler has accepted videos in two tiers and has no output file yet.
C13_Witness ==
    /\ spc = "scan"
    /\ Len(all_videos) >= 1
    /\ Len(collected) >= 1
    /\ out_file = "absent"

\* ---- C14
C14_Inv ==
    /\ (rpc = "chunks" /\ nTokens = 0) =>
            /\ id_chunks = <<>>
            /\ modelCalls = 0
            /\ ~ENABLED RunModel
    /\ rpc = "chunks" => modelCalls = Len(chunk_neg) /\ modelCalls = Len(chunk_pos)
    /\ (rpc = "chunks" /\ nTokens > 0) => modelCalls + Len(id_chunks) >= 1
    /\ rpc = "ZeroDivisionError" =>
            /\ nTokens = 0
            /\ modelCalls = 0
            /\ scored_csv = "absent"
            /\ ~ENABLED NextScorer
    /\ scored_csv = "written" => rpc = "saved" /\ rowsLeft = 0

C14_Step ==
    /\ (rpc = "chunks" /\ rpc' # "chunks") =>
            IF nTokens = 0
            THEN rpc' = "ZeroDivisionError" /\ all_scores' = all_scores
            ELSE rpc' = "rows" /\ Len(all_scores') = Len(all_scores) + 1
    /\ rpc' = "ZeroDivisionError" => rpc = "chunks" /\ nTokens = 0

\* C14: in the transformer scorer a transcript of zero tokens gives zero
\* windows, the classifier is not run for it, and the averaging fails with
\* an unhandled division by zero: the script ends at that row and the output
\* CSV is never written, whatever rows were scored before.
C14_ZeroTokensAbort == []C14_Inv /\ [][C14_Step]_vars

\* A row of zero tokens ended the script after another row had been scored.
C14_Witness ==
    /\ rpc = "ZeroDivisionError"
    /\ Len(all_scores) >= 1
    /\ rowsLeft >= 1
    /\ scored_csv = "absent"

====
